---- MODULE Spec2Model ----
(***************************************************************************)
(* The documentation service of fluxible.io (src/services/docs.js): the    *)
(* hourly refresh cycle that resolves a git ref per package, fetches and   *)
(* renders every documented route, fills the cache, the corpus and the     *)
(* lunr index and persists the snapshot, and the `read` operation served   *)
(* to the presentation shell.                                              *)
(*                                                                         *)
(* JavaScript strings are modelled as sequences of symbols (a symbol is a  *)
(* TLA+ string standing for a run of characters that the code never        *)
(* splits), so that charAt, substr, indexOf, String.replace and the link   *)
(* regular expression are computed as the code computes them.              *)
(*                                                                         *)
(* Spec is the whole service.  SpecResolve runs the branches callback of   *)
(* fetchGitBranch on a version and a branch listing drawn from bounded     *)
(* sets, SpecRewrite runs fetchCallback on a document drawn from a bounded *)
(* set; both start in a state of Spec's first cycle.                       *)
(***************************************************************************)
EXTENDS Integers, Sequences, FiniteSets, Bags, TLC

(* ------------------------------ bounds --------------------------------- *)
\* invocations of refreshCacheFromGithub followed, calls of read followed
MaxCycles == 2
MaxReads == 1
\* markdown items of a document handed to the link rewriter
MaxItems == 3
\* branches in a listing handed to the ref resolution
MaxBranches == 3

(* --------------------------- JS primitives ----------------------------- *)
\* the string the missing value turns into when used as a key or in a URL
Undefined == <<"undefined">>
\* the initial value of the branchHash entries
Null == <<"null">>
\* no Document / no snapshot
None == [key |-> <<>>, content |-> <<>>]

Range(s) == {s[i] : i \in 1..Len(s)}

\* s.indexOf(t): the first 1-based position at which t occurs in s, 0 if none
IndexOf(s, t) ==
    LET hits == {i \in 1..(Len(s) - Len(t) + 1) : SubSeq(s, i, i + Len(t) - 1) = t}
    IN  IF Len(t) > Len(s) \/ hits = {} THEN 0
        ELSE CHOOSE i \in hits : \A j \in hits : i <= j

\* s.replace(t, u) with a string pattern: the first occurrence only
ReplaceFirst(s, t, u) ==
    LET i == IndexOf(s, t)
    IN  IF i = 0 THEN s
        ELSE SubSeq(s, 1, i - 1) \o u \o SubSeq(s, i + Len(t), Len(s))

(* ------------------------------ routes --------------------------------- *)
\* configs/routes: the route table.  "home" is a non-content route.
PathA == <<"/", "docs", "/", "A", ".md">>
PathB == <<"/", "docs", "/", "B", ".md">>

routes ==
    << [name |-> "home", path |-> <<"/">>,
        githubRepo |-> "undefined", githubPath |-> Undefined,
        pageTitle |-> "Home", pageDescription |-> "home page"],
       [name |-> "actions", path |-> <<"/", "api", "/", "actions.html">>,
        githubRepo |-> "yahoo/fluxible", githubPath |-> PathA,
        pageTitle |-> "Actions", pageDescription |-> "actions api"],
       [name |-> "addons", path |-> <<"/", "addons", "/", "provide.html">>,
        githubRepo |-> "yahoo/fluxible-addons-react", githubPath |-> PathB,
        pageTitle |-> "Addons", pageDescription |-> "addons api"] >>

RouteIds == 1..Len(routes)
\* eachRoute as it would be without the test of githubPath
EveryRoute == 1..Len(routes)

\* the routes for which eachRoute pushes a fetch task
ContentRoutes == {r \in RouteIds : routes[r].githubPath # Undefined}
Pkgs == {"fluxible", "fluxible-addons-react"}
RepoOf(pkg) == IF pkg = "fluxible" THEN "yahoo/fluxible" ELSE "yahoo/fluxible-addons-react"
Keys == {routes[r].githubPath : r \in RouteIds}
\* the keys the cache can get: cache[githubPath] with githubPath possibly undefined
CacheKeys == Keys \cup {Undefined}
\* a string handed to fetchAPI as docParams: none of the properties exists
StringParams ==
    [name |-> "undefined", path |-> Undefined, githubRepo |-> "undefined",
     githubPath |-> Undefined, pageTitle |-> "undefined", pageDescription |-> "undefined"]

(* ------------------------------ semver --------------------------------- *)
\* a published version is <<major, minor, patch>>; NoVersion is `undefined`
NoVersion == <<>>
Wild == 0 - 1
NumSyms == {"0", "1", "2", "3"}
Num(sym) == CASE sym = "0" -> 0 [] sym = "1" -> 1 [] sym = "2" -> 2 [] OTHER -> 3
WildSyms == {"x", "X", "*"}

\* the leading [v=]* that semver's x-range grammar skips
RECURSIVE StripRangePrefix(_)
StripRangePrefix(s) ==
    IF Len(s) > 0 /\ s[1] \in {"v", "="} THEN StripRangePrefix(Tail(s)) ELSE s

Comp(sym) == IF sym \in WildSyms THEN Wild ELSE Num(sym)

\* new Range(range): an x-range M, M.m or M.m.p whose parts are numbers or
\* wildcards, after any number of `v` and `=`; the empty string is "*";
\* anything else (a prefix with nothing behind it, a word) is not a range
ParseRange(range) ==
    LET s == StripRangePrefix(range)
        n == Len(s)
        wellFormed ==
            /\ n \in {1, 3, 5}
            /\ \A i \in 1..n : IF i % 2 = 1 THEN s[i] \in NumSyms \cup WildSyms
                                            ELSE s[i] = "."
    IN  IF range = <<>> THEN [ok |-> TRUE, maj |-> Wild, min |-> Wild, pat |-> Wild]
        ELSE IF ~wellFormed THEN [ok |-> FALSE, maj |-> Wild, min |-> Wild, pat |-> Wild]
        ELSE [ok |-> TRUE,
              maj |-> Comp(s[1]),
              min |-> IF n >= 3 THEN Comp(s[3]) ELSE Wild,
              pat |-> IF n >= 5 THEN Comp(s[5]) ELSE Wild]

\* semver.satisfies(version, range): false for an invalid version or range
Satisfies(version, range) ==
    LET r == ParseRange(range)
    IN  /\ Len(version) = 3
        /\ r.ok
        /\ \/ r.maj = Wild
           \/ /\ version[1] = r.maj
              /\ \/ r.min = Wild
                 \/ /\ version[2] = r.min
                    /\ (r.pat = Wild \/ version[3] = r.pat)

Master == <<"master">>

\* eachBranch as it would be if every leading `v` were removed
eachBranchStripAll(githubRef, version, branch) ==
    LET RECURSIVE strip(_)
        strip(b) == IF Len(b) > 0 /\ b[1] = "v" THEN strip(Tail(b)) ELSE b
    IN  IF Satisfies(version, strip(branch)) THEN branch ELSE githubRef

\* the body of branches.forEach: the ref after looking at one branch
eachBranch(githubRef, version, branch) ==
    LET branchName == IF Len(branch) > 0 /\ branch[1] = "v" THEN Tail(branch) ELSE branch
    IN  IF Satisfies(version, branchName) THEN branch ELSE githubRef

\* branches.forEach as it would be if the first match ended the search
RECURSIVE ForEachBranchFirst(_, _, _)
ForEachBranchFirst(githubRef, version, branches) ==
    IF branches = <<>> THEN githubRef
    ELSE IF Satisfies(version, IF Len(Head(branches)) > 0 /\ Head(branches)[1] = "v"
                               THEN Tail(Head(branches)) ELSE Head(branches))
         THEN Head(branches)
    ELSE ForEachBranchFirst(githubRef, version, Tail(branches))

RECURSIVE ForEachBranch(_, _, _)
ForEachBranch(githubRef, version, branches) ==
    IF branches = <<>> THEN githubRef
    ELSE ForEachBranch(eachBranch(githubRef, version, Head(branches)), version, Tail(branches))

\* the branches callback as it would be if githubRef had no initial value
ResolveBranchNoDefault(version, branches) == ForEachBranch(Null, version, branches)

\* the ref fetchGitBranch hands to its callback once both requests succeeded
ResolveBranch(version, branches) == ForEachBranch(Master, version, branches)

\* what the registry and the branches API may answer
Versions == {<<2, 3, 0>>, NoVersion}
V1x == <<"v", "1", ".", "x">>
V2x == <<"v", "2", ".", "x">>
BranchListings == { <<V1x, V2x, Master>> }

(* ----------------------- markdown and rendering ------------------------- *)
HrefOpen == "<a href=\""
Quote == "\""
MdExt == ".md"
\* the symbols that contain a double quote, which [^\"]+ cannot cross
HasQuote(sym) == sym \in {HrefOpen, Quote}
\* the symbols that contain the characters `http`
HasHttp(sym) == sym \in {"https://", "http://"}

Text(s) == [t |-> "text", s |-> s, href |-> <<>>]
Link(href, s) == [t |-> "link", s |-> s, href |-> href]
Heading(s) == [t |-> "h1", s |-> s, href |-> <<>>]

\* the contents API's `content` field and its decoding (new Buffer(md, 'base64'))
Base64(md) == [base64 |-> md]
Base64Decode(content) == content.base64

\* marked(mdString, {renderer}): one markdown item to HTML
RenderItem(item) ==
    CASE item.t = "link" -> <<HrefOpen>> \o item.href \o <<Quote, ">">> \o item.s \o <<"</a>">>
      [] item.t = "h1" -> <<"<h1>">> \o item.s \o <<"</h1>">>
      [] OTHER -> <<"<p>">> \o item.s \o <<"</p>">>

RECURSIVE marked(_)
marked(md) == IF md = <<>> THEN <<>> ELSE RenderItem(Head(md)) \o marked(Tail(md))

(* --------------------------- link rewriting ---------------------------- *)
\* the position of the first symbol at or after i that contains a quote, 0 if none
RECURSIVE NextQuote(_, _)
NextQuote(output, i) ==
    IF i > Len(output) THEN 0
    ELSE IF HasQuote(output[i]) THEN i
    ELSE NextQuote(output, i + 1)

\* /href="([^\"]+\.md)"/g applied with exec until null: the captured groups,
\* in order of occurrence, scanning from position i
RECURSIVE LinkMatches(_, _)
LinkMatches(output, i) ==
    IF i > Len(output) THEN <<>>
    ELSE IF output[i] # HrefOpen THEN LinkMatches(output, i + 1)
    ELSE LET j == NextQuote(output, i + 1)
         IN  IF j # 0 /\ output[j] = Quote /\ j >= i + 3 /\ output[j - 1] = MdExt
             THEN <<SubSeq(output, i + 1, j - 1)>> \o LinkMatches(output, j + 1)
             ELSE LinkMatches(output, i + 1)

\* a path cut at its "/" symbols
RECURSIVE SplitPath(_)
SplitPath(s) ==
    LET i == IndexOf(s, <<"/">>)
    IN  IF i = 0 THEN <<s>>
        ELSE <<SubSeq(s, 1, i - 1)>> \o SplitPath(SubSeq(s, i + 1, Len(s)))

RECURSIVE JoinPath(_)
JoinPath(segs) ==
    IF Len(segs) = 0 THEN <<>>
    ELSE IF Len(segs) = 1 THEN segs[1]
    ELSE segs[1] \o <<"/">> \o JoinPath(Tail(segs))

\* removal of "." and ".." segments; `done` keeps the root segment
RECURSIVE Normalize(_, _)
Normalize(done, segs) ==
    IF segs = <<>> THEN done
    ELSE IF Head(segs) = <<".">> THEN Normalize(done, Tail(segs))
    ELSE IF Head(segs) = <<"..">>
         THEN Normalize(IF Len(done) > 1 THEN SubSeq(done, 1, Len(done) - 1) ELSE done,
                        Tail(segs))
    ELSE Normalize(Append(done, Head(segs)), Tail(segs))

\* url.resolve(from, to) for the links found in documents: an absolute URL and
\* a rooted path stand for themselves, a relative path replaces the last
\* segment of `from`
UrlResolve(from, to) ==
    IF HasHttp(to[1]) THEN to
    ELSE IF to[1] = "/" THEN JoinPath(Normalize(<<<<>>>>, Tail(SplitPath(to))))
    ELSE LET base == SplitPath(from)
             dir == SubSeq(base, 1, Len(base) - 1)
         IN  JoinPath(Normalize(<<dir[1]>>, Tail(dir) \o SplitPath(to)))

\* the test of the route lookup for one route (docs.js:127-131)
RouteMatches(routeConfig, fixedRelativePath, target) ==
    \/ fixedRelativePath = routeConfig.githubPath
    \/ /\ \E i \in 1..Len(target) : HasHttp(target[i])
       /\ IndexOf(target, routeConfig.githubPath) # 0

\* Object.keys(routes).forEach(...): the callback's `return` ends one call of
\* the callback, not the loop, so every route is tested and the last route
\* that matches is the one left in matchedDoc (0: none)
RECURSIVE FindRoute(_, _, _, _)
FindRoute(matchedDoc, r, fixedRelativePath, target) ==
    IF r > Len(routes) THEN matchedDoc
    ELSE FindRoute(IF RouteMatches(routes[r], fixedRelativePath, target) THEN r ELSE matchedDoc,
                   r + 1, fixedRelativePath, target)

\* the while loop over the regex matches: the replacements collected
RECURSIVE Replacements(_, _)
Replacements(githubPath, targets) ==
    IF targets = <<>> THEN <<>>
    ELSE LET target == Head(targets)
             matchedDoc == FindRoute(0, 1, UrlResolve(githubPath, target), target)
         IN  (IF matchedDoc = 0 THEN <<>> ELSE << <<target, routes[matchedDoc].path>> >>)
             \o Replacements(githubPath, Tail(targets))

\* ... and the broken links it logs
RECURSIVE BrokenLinks(_, _)
BrokenLinks(githubPath, targets) ==
    IF targets = <<>> THEN {}
    ELSE LET target == Head(targets)
             fixedRelativePath == UrlResolve(githubPath, target)
         IN  (IF FindRoute(0, 1, fixedRelativePath, target) = 0
              THEN {[kind |-> "brokenLink", from |-> githubPath, to |-> fixedRelativePath]}
              ELSE {})
             \cup BrokenLinks(githubPath, Tail(targets))

\* replacements.forEach(output = output.replace(from, to))
RECURSIVE ApplyReplacements(_, _)
ApplyReplacements(output, replacements) ==
    IF replacements = <<>> THEN output
    ELSE ApplyReplacements(ReplaceFirst(output, Head(replacements)[1], Head(replacements)[2]),
                           Tail(replacements))

\* lines 112-148: the rendered output with its .md links rewritten
RewriteLinks(output, githubPath) ==
    ApplyReplacements(output, Replacements(githubPath, LinkMatches(output, 1)))

\* the stub rendered when the response has no content (line 173)
NotFoundStub(githubPath) == marked(<<Heading(<<"Doc Not Found: ">> \o githubPath)>>)

(* ------------------------------ upstream ------------------------------- *)
\* the markdown files the repositories may hold; revision 0 is "no such file"
\* (the response then has no `content`)

Revisions == {0, 1}
Markdown(githubPath, rev) ==
    CASE githubPath = PathA /\ rev = 1 ->
            <<Heading(<<"Actions">>), Link(<<"B", ".md">>, <<"addons">>)>>
      [] githubPath = PathA /\ rev = 2 ->
            <<Heading(<<"Actions">>), Link(<<"C", ".md">>, <<"missing">>),
              Link(<<"B", ".md">>, <<"addons">>)>>
      [] githubPath = PathB /\ rev = 1 ->
            <<Heading(<<"Addons">>), Text(<<"provideContext">>)>>
      [] githubPath = PathB /\ rev = 2 ->
            <<Heading(<<"Addons">>),
              Link(<<"https://", "github.com", "/", "yahoo", "/", "fluxible", "/",
                     "docs", "/", "A", ".md">>, <<"actions">>)>>
      [] OTHER -> <<>>

(* ------------------------------- state --------------------------------- *)
VARIABLES
    alive,       \* the node process is running
    cache,       \* docs.js:31  githubPath -> {key, content}
    documents,   \* docs.js:32  the corpus, an array
    index,       \* docs.js:35  the lunr index
    routeRef,    \* routes[r].githubRef, written by eachRoute
    cyc,         \* one record per invocation of refreshCacheFromGithub
    nCycles,     \* invocations of refreshCacheFromGithub so far
    timer,       \* a setTimeout(refreshCacheFromGithub) is pending
    snapshot,    \* the file at indexDb
    snapOf,      \* what each cycle wrote to the file
    log,         \* what console.log / console.error printed
    reads,       \* the calls of read: path, fate, calls of the callback, Document
    fetchCalls,  \* requests handed to superagent
    call         \* the response an examined callback is given (NoCall: any)

vars == <<alive, cache, documents, index, routeRef, cyc, nCycles, timer,
          snapshot, snapOf, log, reads, fetchCalls, call>>

CycleIds == 1..MaxCycles
ReadIds == 1..MaxReads

(* ---------------------------- lunr index ------------------------------- *)
EmptyIndex == [refs |-> {}, tokenStore |-> {}]

\* the tokens lunr extracts from the four fields of a document
Tokens(doc) == Range(doc.body) \cup {doc.title, doc.description} \cup Range(doc.permalink)

\* index.add(document): the document store is keyed by the document's id and
\* a token's posting for an id is overwritten; postings of tokens the
\* document no longer has stay
IndexAdd(idx, doc) ==
    [refs |-> idx.refs \cup {doc.id},
     tokenStore |-> idx.tokenStore \cup {<<t, doc.id>> : t \in Tokens(doc)}]

\* index.toJSON()
IndexToJSON(idx) == [fields |-> <<"title", "description", "body", "permalink">>,
                     ref |-> "id",
                     documentStore |-> idx.refs,
                     tokenStore |-> idx.tokenStore]

(* --------------------------- fetchCallback ----------------------------- *)
\* a response of the contents API: err, or a body with or without `content`
\* (an empty `content` is falsy as well)
Response(err, rev, githubPath) ==
    [err |-> err,
     hasContent |-> ~err /\ Markdown(githubPath, rev) # <<>>,
     content |-> Base64(Markdown(githubPath, rev))]

\* lines 108-148
Output(res, githubPath) == RewriteLinks(marked(Base64Decode(res.content)), githubPath)

\* fetchCallback as it would be if a failed request dropped the entry
FetchedCacheEvict(cacheNow, githubPath, res) ==
    IF res.err THEN [cacheNow EXCEPT ![githubPath] = None]
    ELSE IF res.hasContent
         THEN [cacheNow EXCEPT ![githubPath] =
                   [key |-> githubPath, content |-> Output(res, githubPath)]]
    ELSE [cacheNow EXCEPT ![githubPath] =
              [key |-> githubPath, content |-> NotFoundStub(githubPath)]]

\* fetchCallback as it would be if a response without content stored nothing
FetchedCacheNoStub(cacheNow, githubPath, res) ==
    IF res.err THEN cacheNow
    ELSE IF res.hasContent
         THEN [cacheNow EXCEPT ![githubPath] =
                   [key |-> githubPath, content |-> Output(res, githubPath)]]
    ELSE cacheNow

\* lines 100-103, 150-153 and 171-174: the cache after fetchCallback
FetchedCache(cacheNow, githubPath, res) ==
    IF res.err THEN cacheNow
    ELSE IF res.hasContent
         THEN [cacheNow EXCEPT ![githubPath] =
                   [key |-> githubPath, content |-> Output(res, githubPath)]]
    ELSE [cacheNow EXCEPT ![githubPath] =
              [key |-> githubPath, content |-> NotFoundStub(githubPath)]]

\* lines 157-163
Document(docParams, res) ==
    [id |-> docParams.githubPath,
     title |-> docParams.pageTitle,
     body |-> Output(res, docParams.githubPath),
     description |-> docParams.pageDescription,
     permalink |-> docParams.path]

\* line 165
FetchedDocuments(docsNow, docParams, res) ==
    IF ~res.err /\ res.hasContent THEN Append(docsNow, Document(docParams, res)) ELSE docsNow

\* line 164
FetchedIndex(idx, docParams, res) ==
    IF ~res.err /\ res.hasContent THEN IndexAdd(idx, Document(docParams, res)) ELSE idx

\* lines 139 and 169
FetchedLog(docParams, res) ==
    IF res.err THEN {}
    ELSE IF res.hasContent
         THEN BrokenLinks(docParams.githubPath,
                          LinkMatches(marked(Base64Decode(res.content)), 1))
    ELSE {[kind |-> "docNotFound", from |-> docParams.githubPath, to |-> <<>>]}

\* how a contents request ended
Outcome(res) == IF res.err THEN "err" ELSE IF res.hasContent THEN "content" ELSE "missing"

(* ----------------------------- the cycle -------------------------------- *)
\* the snapshot file before its first write
NoSnapshot == [written |-> FALSE, docs |-> <<>>, index |-> IndexToJSON(EmptyIndex)]

\* lines 300-303
SnapshotData(docsNow, idx) == [written |-> TRUE, docs |-> docsNow, index |-> IndexToJSON(idx)]

\* an invocation that has not happened.  `overlapped`: an earlier invocation
\* had requests outstanding when this one began; `lookupErr`: a request of
\* the package's ref resolution failed
NoCycle ==
    [started |-> FALSE,
     overlapped |-> FALSE,
     task |-> [pkg \in Pkgs |-> "idle"],
     lookupErr |-> [pkg \in Pkgs |-> FALSE],
     version |-> [pkg \in Pkgs |-> NoVersion],
     results |-> [pkg \in Pkgs |-> Null],
     fetchApiRan |-> FALSE,
     branchHash |-> [pkg \in Pkgs |-> Null],
     fetch |-> [r \in ContentRoutes |-> "idle"],
     rev |-> [r \in ContentRoutes |-> 0],
     reqRef |-> [r \in ContentRoutes |-> Null],
     cbCalled |-> "no",
     persists |-> 0,
     wrote |-> "no"]

\* lines 263-273 and 197-202: branchHash is fresh, async.auto starts the two
\* tasks without dependencies, each of which sends its registry request
StartedCycle == [NoCycle EXCEPT !.started = TRUE, !.task = [pkg \in Pkgs |-> "registry"]]

FetchSettled(status) == status \in {"err", "missing", "content"}
AllFetchesSettled(c) == \A r \in ContentRoutes : FetchSettled(cyc[c].fetch[r])

\* nothing of the cycle is outstanding any more
Settled(c) ==
    /\ cyc[c].started
    /\ \A pkg \in Pkgs : cyc[c].task[pkg] \in {"done", "failed"}
    /\ \/ \E pkg \in Pkgs : cyc[c].task[pkg] = "failed"
       \/ cyc[c].fetchApiRan /\ AllFetchesSettled(c)

Refreshing(c) == cyc[c].started /\ ~Settled(c)

NoRead == [path |-> <<>>, fate |-> "unused", callbacks |-> 0, doc |-> None]

\* no response is prescribed: every callback gets whatever the network brings
NoCall == [kind |-> "any"]

\* the module has been loaded: the first invocation has taken place
Init ==
    /\ alive = TRUE
    /\ cache = [k \in CacheKeys |-> None]
    /\ documents = <<>>
    /\ index = EmptyIndex
    /\ routeRef = [r \in RouteIds |-> Undefined]
    /\ cyc = [c \in CycleIds |-> IF c = 1 THEN StartedCycle ELSE NoCycle]
    /\ nCycles = 1
    /\ timer = TRUE
    /\ snapshot = NoSnapshot
    /\ snapOf = [c \in CycleIds |-> NoSnapshot]
    /\ log = {}
    /\ reads = [i \in ReadIds |-> NoRead]
    /\ fetchCalls = Cardinality(Pkgs)
    /\ call = NoCall

\* line 310 firing: the next invocation of refreshCacheFromGithub, which
\* arms the timer again before it returns
refreshCacheFromGithub ==
    /\ alive /\ timer
    /\ nCycles < MaxCycles
    /\ nCycles' = nCycles + 1
    /\ cyc' = [cyc EXCEPT ![nCycles + 1] =
                   [StartedCycle EXCEPT !.overlapped = \E c \in CycleIds : Refreshing(c)]]
    /\ fetchCalls' = fetchCalls + Cardinality(Pkgs)
    /\ timer' = TRUE
    /\ UNCHANGED <<alive, cache, documents, index, routeRef, snapshot, snapOf,
                   log, reads, call>>

\* lines 203-222: the registry answered.  On an error the task's callback gets
\* an Error: async.auto records no result for the task, so fetchApi, which
\* depends on it, is never run.  Otherwise the branches request is sent.
npmResponse(c, pkg) ==
    /\ alive
    /\ cyc[c].task[pkg] = "registry"
    /\ \/ /\ cyc' = [cyc EXCEPT ![c].task[pkg] = "failed", ![c].lookupErr[pkg] = TRUE]
          /\ UNCHANGED fetchCalls
       \/ \E version \in Versions :
            /\ cyc' = [cyc EXCEPT ![c].task[pkg] = "branches", ![c].version[pkg] = version]
            /\ fetchCalls' = fetchCalls + 1
    /\ UNCHANGED <<alive, cache, documents, index, routeRef, nCycles, timer,
                   snapshot, snapOf, log, reads, call>>

\* lines 222-249: the cycle after the callback of the branches request: an
\* Error for the task, or the ref as the task's result
BranchesAnswered(cycle, pkg, err, branches) ==
    IF err
    THEN [cycle EXCEPT !.task[pkg] = "failed", !.lookupErr[pkg] = TRUE,
                       !.version[pkg] = NoVersion]
    ELSE [cycle EXCEPT !.task[pkg] = "done",
                       !.version[pkg] = NoVersion,
                       !.results[pkg] = ResolveBranch(cycle.version[pkg], branches)]

\* lines 222-249: the branches API answered
branchesResponse(c, pkg) ==
    /\ alive
    /\ cyc[c].task[pkg] = "branches"
    /\ \/ cyc' = [cyc EXCEPT ![c] = BranchesAnswered(cyc[c], pkg, TRUE, <<>>)]
       \/ \E branches \in BranchListings :
            cyc' = [cyc EXCEPT ![c] = BranchesAnswered(cyc[c], pkg, FALSE, branches)]
    /\ UNCHANGED <<alive, cache, documents, index, routeRef, nCycles, timer,
                   snapshot, snapOf, log, reads, fetchCalls, call>>

\* the lookup as it would be if a route kept the ref it already has
HashGetKeep(branchHash, githubRepo) ==
    LET had == {r \in RouteIds : routes[r].githubRepo = githubRepo
                                 /\ routeRef[r] \notin {Undefined, Null}}
    IN  IF had # {} THEN routeRef[CHOOSE r \in had : TRUE]
        ELSE IF \E pkg \in Pkgs : RepoOf(pkg) = githubRepo
             THEN branchHash[CHOOSE pkg \in Pkgs : RepoOf(pkg) = githubRepo]
        ELSE Undefined

\* branchHash[routeConfig.githubRepo]: undefined for a repository not in the hash
HashGet(branchHash, githubRepo) ==
    IF \E pkg \in Pkgs : RepoOf(pkg) = githubRepo
    THEN branchHash[CHOOSE pkg \in Pkgs : RepoOf(pkg) = githubRepo]
    ELSE Undefined

\* lines 274-294: both refs are there.  Every route gets its githubRef, and
\* async.parallel starts one fetchAPI per route with a githubPath, each of
\* which sends its contents request with the ref the route has then.
fetchApiCb(c) ==
    /\ alive
    /\ ~cyc[c].fetchApiRan
    /\ \A pkg \in Pkgs : cyc[c].task[pkg] = "done"
    /\ LET branchHash == [pkg \in Pkgs |-> cyc[c].results[pkg]]
           refs == [r \in RouteIds |-> HashGet(branchHash, routes[r].githubRepo)]
       IN  /\ routeRef' = refs
           /\ cyc' = [cyc EXCEPT ![c].fetchApiRan = TRUE,
                                 ![c].branchHash = branchHash,
                                 ![c].fetch = [r \in ContentRoutes |-> "inflight"],
                                 ![c].reqRef = [r \in ContentRoutes |-> refs[r]]]
    /\ fetchCalls' = fetchCalls + Cardinality(ContentRoutes)
    /\ UNCHANGED <<alive, cache, documents, index, nCycles, timer, snapshot,
                   snapOf, log, reads, call>>

\* async.parallel: what the task callback of route r makes of the final
\* callback.  The first error calls it with the error at once; it is called
\* without error when the last task completes and none has failed; it is
\* called once.
ParallelCallback(cycle, r, err) ==
    IF cycle.cbCalled # "no" THEN "none"
    ELSE IF err THEN "err"
    ELSE IF \A q \in ContentRoutes \ {r} : cycle.fetch[q] \in {"missing", "content"} THEN "ok"
    ELSE "none"

\* lines 100-178 and 294-306: the contents API answered the request of route r
\* of cycle c.  fetchCallback runs, then the task callback of async.parallel
\* and, when that calls it, npmFetchesCallback, whose writeFileSync may throw;
\* nothing in docs.js catches that, and an uncaught exception may end the
\* process.

\* the cycle record as it would be if the first failed fetch gave up the
\* requests still outstanding
FetchedCycleAbort(cycle, r, res, rev, writeOk) ==
    LET final == ParallelCallback(cycle, r, res.err)
    IN  [cycle EXCEPT
            !.fetch = [q \in DOMAIN cycle.fetch |->
                          IF q = r THEN Outcome(res)
                          ELSE IF res.err /\ cycle.fetch[q] = "inflight" THEN "err"
                          ELSE cycle.fetch[q]],
            !.rev[r] = rev,
            !.cbCalled = IF final = "none" THEN @ ELSE final,
            !.persists = IF final = "ok" THEN @ + 1 ELSE @,
            !.wrote = IF final # "ok" THEN @ ELSE IF writeOk THEN "ok" ELSE "fail"]

\* lines 100-103, 167, 176 and 294-306: the cycle record after the callbacks
\* of route r's request: the task is over, the other tasks are as they were
FetchedCycle(cycle, r, res, rev, writeOk) ==
    LET final == ParallelCallback(cycle, r, res.err)
    IN  [cycle EXCEPT
            !.fetch[r] = Outcome(res),
            !.rev[r] = rev,
            !.cbCalled = IF final = "none" THEN @ ELSE final,
            !.persists = IF final = "ok" THEN @ + 1 ELSE @,
            !.wrote = IF final # "ok" THEN @ ELSE IF writeOk THEN "ok" ELSE "fail"]

\* fetchCallback for the response res, the task callback and npmFetchesCallback
fetchCallbackWith(c, r, res, rev, writeOk, survives) ==
    LET docParams == routes[r]
        githubPath == docParams.githubPath
        final == ParallelCallback(cyc[c], r, res.err)
        docs2 == FetchedDocuments(documents, docParams, res)
        index2 == FetchedIndex(index, docParams, res)
        data == SnapshotData(docs2, index2)
    IN  /\ (final # "ok") => (writeOk /\ survives)
        /\ writeOk => survives
        /\ cache' = FetchedCache(cache, githubPath, res)
        /\ documents' = docs2
        /\ index' = index2
        /\ log' = log \cup FetchedLog(docParams, res)
                      \cup (IF final = "err"
                            THEN {[kind |-> "fetchError", from |-> githubPath, to |-> <<>>]}
                            ELSE {})
        /\ cyc' = [cyc EXCEPT ![c] = FetchedCycle(cyc[c], r, res, rev, writeOk)]
        /\ snapshot' = IF final = "ok" /\ writeOk THEN data ELSE snapshot
        /\ snapOf' = IF final = "ok" /\ writeOk THEN [snapOf EXCEPT ![c] = data]
                     ELSE snapOf
        /\ alive' = survives

fetchCallback(c, r) ==
    /\ alive
    /\ cyc[c].fetch[r] = "inflight"
    /\ \E err \in BOOLEAN, rev \in Revisions, writeOk \in BOOLEAN, survives \in BOOLEAN :
         /\ err => rev = 0
         /\ fetchCallbackWith(c, r, Response(err, rev, routes[r].githubPath), rev,
                              writeOk, survives)
    /\ UNCHANGED <<routeRef, nCycles, timer, reads, fetchCalls, call>>

(* ------------------------------- read ---------------------------------- *)
ReadPaths == {PathA, <<"/", "docs", "/", "nope", ".md">>}

\* cache[params.path]
CacheGet(cacheNow, path) == IF path \in DOMAIN cacheNow THEN cacheNow[path] ELSE None

\* read as it would be if a hit also refreshed the entry from GitHub
ReadResultRefetch(cacheNow, path) ==
    IF CacheGet(cacheNow, path) # None
    THEN [fate |-> "answered", callbacks |-> 1, doc |-> CacheGet(cacheNow, path),
          requests |-> 1]
    ELSE [fate |-> "inflight", callbacks |-> 0, doc |-> None, requests |-> 1]

\* lines 315-322: what one call of read does: on a hit the callback gets the
\* cached Document; on a miss fetchAPI is called with the path alone, which
\* sends a contents request and never calls the callback
ReadResult(cacheNow, path) ==
    IF CacheGet(cacheNow, path) # None
    THEN [fate |-> "answered", callbacks |-> 1, doc |-> CacheGet(cacheNow, path),
          requests |-> 0]
    ELSE [fate |-> "inflight", callbacks |-> 0, doc |-> None, requests |-> 1]

read(i, path) ==
    /\ alive
    /\ reads[i].fate = "unused"
    /\ \A j \in 1..(i - 1) : reads[j].fate # "unused"
    /\ LET result == ReadResult(cache, path)
       IN  /\ reads' = [reads EXCEPT ![i] = [path |-> path, fate |-> result.fate,
                                             callbacks |-> result.callbacks,
                                             doc |-> result.doc]]
           /\ fetchCalls' = fetchCalls + result.requests
    /\ UNCHANGED <<alive, cache, documents, index, routeRef, cyc, nCycles, timer,
                   snapshot, snapOf, log, call>>

\* lines 100-107 and 168-176 for the request sent by the i-th read: docParams
\* is a string, so githubPath is undefined and cb is undefined.  On an error
\* cb(err) throws at once; otherwise the stub is cached under the key
\* `undefined` before cb(null, ...) throws.  `contents/undefined` is no file.
onDemandResponse(i) ==
    /\ alive
    /\ reads[i].fate = "inflight"
    /\ \E err \in BOOLEAN, survives \in BOOLEAN :
         LET res == Response(err, 0, Undefined)
         IN  /\ cache' = FetchedCache(cache, Undefined, res)
             /\ documents' = FetchedDocuments(documents, StringParams, res)
             /\ index' = FetchedIndex(index, StringParams, res)
             /\ log' = log \cup FetchedLog(StringParams, res)
             /\ reads' = [reads EXCEPT ![i].fate = Outcome(res)]
             /\ alive' = survives
    /\ UNCHANGED <<routeRef, cyc, nCycles, timer, snapshot, snapOf, fetchCalls, call>>

Next ==
    \/ refreshCacheFromGithub
    \/ \E c \in CycleIds, pkg \in Pkgs : npmResponse(c, pkg)
    \/ \E c \in CycleIds, pkg \in Pkgs : branchesResponse(c, pkg)
    \/ \E c \in CycleIds : fetchApiCb(c)
    \/ \E c \in CycleIds, r \in ContentRoutes : fetchCallback(c, r)
    \/ \E i \in ReadIds, path \in ReadPaths : read(i, path)
    \/ \E i \in ReadIds : onDemandResponse(i)

Spec == Init /\ [][Next]_vars

(* ------------------------------ claims --------------------------------- *)
\* C1: cycles never overlap: in every reachable state at most one cycle is
\* Refreshing, however long a cycle's requests take.
C1_CyclesNeverOverlap == Cardinality({c \in CycleIds : Refreshing(c)}) <= 1

\* C2: barrier: in every cycle the persist step runs only after every fetch
\* of the cycle has settled, and once all have settled (succeeded or failed)
\* it has run exactly once.
C2_Barrier ==
    \A c \in CycleIds :
        /\ cyc[c].persists > 0 => AllFetchesSettled(c)
        /\ AllFetchesSettled(c) => cyc[c].persists = 1

\* C3: when the registry lookup or the branch listing of a package fails, its
\* resolution yields 'master' instead of an error, and the cycle, once
\* nothing of its resolutions is outstanding, has gone on to the fetch stage.
C3_ResolveFallsBack ==
    \A c \in CycleIds :
        /\ \A pkg \in Pkgs :
              cyc[c].lookupErr[pkg] =>
                  (cyc[c].task[pkg] = "done" /\ cyc[c].results[pkg] = Master)
        /\ (\A pkg \in Pkgs : cyc[c].task[pkg] \in {"done", "failed"}) /\ Settled(c)
              => cyc[c].fetchApiRan

ContentPaths == {routes[r].githubPath : r \in ContentRoutes}

\* C4: the corpus written as `docs` in the snapshot and the index hold exactly
\* one entry per route with an upstream path: none missing, no id twice.
C4_OneEntryPerRoute ==
    snapshot.written =>
        /\ {snapshot.docs[i].id : i \in 1..Len(snapshot.docs)} = ContentPaths
        /\ \A i, j \in 1..Len(snapshot.docs) :
              snapshot.docs[i].id = snapshot.docs[j].id => i = j
        /\ snapshot.index.documentStore = ContentPaths

\* C5: every call of read delivers exactly one response: once the call and the
\* request it may have sent are over, its callback has been called once.
C5_EveryReadAnswered ==
    \A i \in ReadIds :
        reads[i].fate \notin {"unused", "inflight"} => reads[i].callbacks = 1

\* a contents request of a refresh cycle gets a valid response in this step
CycleFetchStep ==
    \E c \in CycleIds, r \in ContentRoutes :
        cyc[c].fetch[r] = "inflight" /\ cyc'[c].fetch[r] \in {"missing", "content"}

\* C6: read never writes: every step that changes the cache, the corpus or
\* the index is a route fetch of a refresh cycle.
C6_ReadNeverWrites ==
    [][(cache' # cache \/ documents' # documents \/ index' # index) => CycleFetchStep]_vars

\* C7: a read for a key present in the cache calls the callback at once with
\* exactly the cached Document and sends no request, in every state.
C7_ReadHitServedFromCache ==
    [][\A i \in ReadIds :
          (reads[i].fate = "unused" /\ reads'[i].fate # "unused"
             /\ CacheGet(cache, reads'[i].path) # None)
          => /\ reads'[i].fate = "answered"
             /\ reads'[i].callbacks = 1
             /\ reads'[i].doc = cache[reads'[i].path]
             /\ fetchCalls' = fetchCalls
             /\ cache' = cache]_vars

\* a read was served from the cache while a refresh cycle had requests out
C7_Witness ==
    \E i \in ReadIds :
        /\ reads[i].fate = "answered"
        /\ reads[i].doc = cache[reads[i].path]
        /\ \E c \in CycleIds : Refreshing(c)

\* a contents request for key k gets a valid response in this step
ValidResponseFor(k) ==
    \/ \E c \in CycleIds, r \in ContentRoutes :
          /\ routes[r].githubPath = k
          /\ cyc[c].fetch[r] = "inflight"
          /\ cyc'[c].fetch[r] \in {"missing", "content"}
    \/ /\ k = Undefined
       /\ \E i \in ReadIds :
             reads[i].fate = "inflight" /\ reads'[i].fate \in {"missing", "content"}

\* C8: stale but available: a key in the cache is never removed, and its
\* entry changes only in a step in which a request for that key gets a valid
\* response; a request that fails leaves the entry as it was.
C8_StaleButAvailable ==
    [][\A k \in CacheKeys :
          /\ cache[k] # None => cache'[k] # None
          /\ cache'[k] # cache[k] => ValidResponseFor(k)]_vars

\* a route was fetched and cached by one cycle, the next cycle, begun after
\* that one had settled, failed to fetch it, and the entry is still the
\* Document of the first
C8_Witness ==
    \E r \in ContentRoutes :
        /\ cyc[1].fetch[r] = "content"
        /\ cyc[2].started /\ ~cyc[2].overlapped
        /\ cyc[2].fetch[r] = "err"
        /\ cache[routes[r].githubPath] # None
        /\ cache[routes[r].githubPath].content =
              Output(Response(FALSE, cyc[1].rev[r], routes[r].githubPath),
                     routes[r].githubPath)

\* C9: whatever the outcome of a cycle, the next cycle is still to come; a
\* failure of the snapshot write is logged and stops nothing.
C9_PersistFailureHarmless ==
    \A c \in CycleIds :
        cyc[c].wrote = "fail" =>
            /\ alive
            /\ timer
            /\ \E entry \in log : entry.kind = "persistError"

SeqToBag(seq) == [x \in Range(seq) |-> Cardinality({i \in 1..Len(seq) : seq[i] = x})]

\* the two cycles saw the same upstream: the same refs, the same responses
SameUpstream(c1, c2) ==
    /\ cyc[c1].results = cyc[c2].results
    /\ cyc[c1].fetch = cyc[c2].fetch
    /\ cyc[c1].rev = cyc[c2].rev

\* C10: a cycle run again on an unchanged upstream writes the snapshot the
\* first one wrote: the same corpus entries as a collection, the same index.
C10_Idempotent ==
    \A c \in CycleIds :
        (/\ c + 1 \in CycleIds
         /\ snapOf[c].written /\ snapOf[c + 1].written
         /\ ~cyc[c + 1].overlapped
         /\ SameUpstream(c, c + 1))
        => /\ SeqToBag(snapOf[c + 1].docs) = SeqToBag(snapOf[c].docs)
           /\ snapOf[c + 1].index = snapOf[c].index

(* ------------------- the ref resolution on a listing -------------------- *)
\* The registry has answered for one package with a version (or without
\* dist-tags); the branches API answers with a listing drawn from Listings.

V23x == <<"v", "2", ".", "3", ".", "x">>
BranchNames ==
    {V1x, V2x, V23x, Master, <<"2", ".", "x">>, <<"v">>, <<"v", "v">>}
Listings == UNION {[1..n -> BranchNames] : n \in 0..MaxBranches}
PublishedVersions == {<<2, 3, 0>>, <<1, 0, 3>>, NoVersion}

\* lines 203-221: the cycle once the registry has answered for pkg
BranchesStage(pkg, version) ==
    [StartedCycle EXCEPT !.task[pkg] = "branches", !.version[pkg] = version]

InitResolve ==
    /\ alive = TRUE
    /\ cache = [k \in CacheKeys |-> None]
    /\ documents = <<>>
    /\ index = EmptyIndex
    /\ routeRef = [r \in RouteIds |-> Undefined]
    /\ call \in [kind : {"branches"}, pkg : Pkgs, version : PublishedVersions,
                  branches : Listings]
    /\ cyc = [c \in CycleIds |->
                 IF c = 1 THEN BranchesStage(call.pkg, call.version) ELSE NoCycle]
    /\ nCycles = 1
    /\ timer = TRUE
    /\ snapshot = NoSnapshot
    /\ snapOf = [c \in CycleIds |-> NoSnapshot]
    /\ log = {}
    /\ reads = [i \in ReadIds |-> NoRead]
    /\ fetchCalls = Cardinality(Pkgs) + 1

\* lines 222-249: the branches API answers for pkg with the listing of `call`
branchesListed(pkg) ==
    /\ alive
    /\ call.kind = "branches" /\ call.pkg = pkg
    /\ cyc[1].task[pkg] = "branches"
    /\ cyc' = [cyc EXCEPT ![1] = BranchesAnswered(cyc[1], pkg, FALSE, call.branches)]
    /\ UNCHANGED <<alive, cache, documents, index, routeRef, nCycles, timer,
                   snapshot, snapOf, log, reads, fetchCalls, call>>

NextResolve == \E pkg \in Pkgs : branchesListed(pkg)

SpecResolve == InitResolve /\ [][NextResolve]_vars

\* the resolution of the package of `call` is over
Resolved == call.kind = "branches" /\ cyc[1].task[call.pkg] \in {"done", "failed"}

\* what fetchGitBranch handed to its callback
ResolvedRef == cyc[1].results[call.pkg]

\* a branch name without one leading `v`
Stripped(branch) == IF Len(branch) > 0 /\ branch[1] = "v" THEN Tail(branch) ELSE branch

\* the places of the listing whose branch the published version satisfies
SatisfiedAt ==
    {i \in 1..Len(call.branches) : Satisfies(call.version, Stripped(call.branches[i]))}

\* C14: when no branch of the listing is satisfied by the published version
\* (also without a published version, also with an empty listing) the
\* resolution ends without error and its ref is 'master'.
C14_DefaultRef ==
    (Resolved /\ SatisfiedAt = {})
    => /\ cyc[1].task[call.pkg] = "done"
       /\ ~cyc[1].lookupErr[call.pkg]
       /\ ResolvedRef = Master

\* no version was published, the listing has a version branch, and the ref
\* is the default
C14_Witness ==
    /\ Resolved
    /\ call.version = NoVersion
    /\ \E i \in 1..Len(call.branches) : call.branches[i] = V2x
    /\ ResolvedRef = Master

\* C15: a branch name that starts with `v` is compared without exactly one
\* leading character: it is selected (it or a later branch is the ref) iff the
\* version satisfies the name without its first character; the ref is the
\* name as listed; 2.3.0 with [v1.x, v2.x, master] gives "v2.x".
C15_StripOneKeepName ==
    Resolved
    => /\ ResolvedRef \in {Master} \cup Range(call.branches)
       /\ \A i \in 1..Len(call.branches) :
             (call.branches[i][1] = "v" /\ Satisfies(call.version, Tail(call.branches[i])))
             => \E j \in i..Len(call.branches) : ResolvedRef = call.branches[j]
       /\ (ResolvedRef # Master /\ ResolvedRef[1] = "v")
             => Satisfies(call.version, Tail(ResolvedRef))
       /\ (call.version = <<2, 3, 0>> /\ call.branches = <<V1x, V2x, Master>>)
             => ResolvedRef = V2x

\* 2.3.0 was resolved against [v1.x, v2.x, master]
C15_Witness ==
    /\ Resolved
    /\ call.version = <<2, 3, 0>>
    /\ call.branches = <<V1x, V2x, Master>>
    /\ ResolvedRef = V2x

\* C18: when several branches of the listing are satisfied, the ref is the
\* last of them in the order of the listing.
C18_LastMatchWins ==
    (Resolved /\ Cardinality(SatisfiedAt) > 1)
    => ResolvedRef = call.branches[CHOOSE i \in SatisfiedAt : \A j \in SatisfiedAt : j <= i]

\* two different branches are satisfied, the more specific one listed first,
\* and the ref is the later, less specific one
C18_Witness ==
    /\ Resolved
    /\ call.version = <<2, 3, 0>>
    /\ call.branches = <<V23x, V2x>>
    /\ ResolvedRef = V2x

(* ------------------- the link rewriter on a document -------------------- *)
\* The contents API answers the request of one route with a document drawn
\* from Documents; fetchCallback renders it, rewrites its links and stores it.

\* relative links: to a tracked file, to an untracked file whose name ends
\* like the tracked one, to an untracked file
ToB == <<"B", ".md">>
ToSubB == <<"sub", "/", "B", ".md">>
ToC == <<"C", ".md">>
\* absolute links: to a tracked file of another repository, and one whose URL
\* holds the githubPath of two routes
ToUrlA == <<"https://", "github.com", "/", "yahoo", "/", "fluxible", "/", "blob",
            "/", "docs", "/", "A", ".md">>
ToUrlAB == <<"https://", "github.com", "/", "search", "/", "docs", "/", "A", ".md",
             "/", "docs", "/", "B", ".md">>

Items ==
    { Heading(<<"Actions">>),
      Text(<<"see ", "B", ".md">>),
      Link(ToB, <<"addons">>),
      Link(ToSubB, <<"other">>),
      Link(ToC, <<"missing">>),
      Link(ToUrlA, <<"actions">>),
      Link(ToUrlAB, <<"both">>) }

Documents == UNION {[1..n -> Items] : n \in 1..MaxItems}

\* the cycle at the fetch stage: both refs resolved to the default, every
\* contents request sent
FetchStage ==
    [StartedCycle EXCEPT
        !.task = [pkg \in Pkgs |-> "done"],
        !.results = [pkg \in Pkgs |-> Master],
        !.fetchApiRan = TRUE,
        !.branchHash = [pkg \in Pkgs |-> Master],
        !.fetch = [r \in ContentRoutes |-> "inflight"],
        !.reqRef = [r \in ContentRoutes |-> Master]]

InitRewrite ==
    /\ alive = TRUE
    /\ cache = [k \in CacheKeys |-> None]
    /\ documents = <<>>
    /\ index = EmptyIndex
    /\ routeRef = [r \in RouteIds |->
                      HashGet([pkg \in Pkgs |-> Master], routes[r].githubRepo)]
    /\ cyc = [c \in CycleIds |-> IF c = 1 THEN FetchStage ELSE NoCycle]
    /\ nCycles = 1
    /\ timer = TRUE
    /\ snapshot = NoSnapshot
    /\ snapOf = [c \in CycleIds |-> NoSnapshot]
    /\ log = {}
    /\ reads = [i \in ReadIds |-> NoRead]
    /\ fetchCalls = 2 * Cardinality(Pkgs) + Cardinality(ContentRoutes)
    /\ call \in [kind : {"contents"}, route : ContentRoutes, md : Documents]

\* lines 100-167: the contents API answers the request of route r with the
\* document of `call`
contentsResponse(r) ==
    /\ alive
    /\ call.kind = "contents" /\ call.route = r
    /\ cyc[1].fetch[r] = "inflight"
    /\ fetchCallbackWith(1, r,
                         [err |-> FALSE, hasContent |-> call.md # <<>>,
                          content |-> Base64(call.md)],
                         1, TRUE, TRUE)
    /\ UNCHANGED <<routeRef, nCycles, timer, reads, fetchCalls, call>>

NextRewrite == \E r \in ContentRoutes : contentsResponse(r)

SpecRewrite == InitRewrite /\ [][NextRewrite]_vars

\* the number of places at which t occurs in s
Occurrences(s, t) ==
    Cardinality({i \in 1..(Len(s) - Len(t) + 1) : SubSeq(s, i, i + Len(t) - 1) = t})

\* a link to `target` as the renderer writes it
Href(target) == <<HrefOpen>> \o target \o <<Quote>>

\* the document of `call` has been rendered, rewritten and stored
Rewritten == call.kind = "contents" /\ cyc[1].fetch[call.route] = "content"

\* the .md links of the rendered document of `call`
RenderedTargets == LinkMatches(marked(call.md), 1)

\* the routes a link of the document of `call` matches
MatchingRoutes(target) ==
    {q \in RouteIds :
        RouteMatches(routes[q], UrlResolve(routes[call.route].githubPath, target), target)}

\* C12: for every document and every .md link in it that resolves, relative
\* to the document's githubPath, to the githubPath of a route, the output
\* stored in the cache holds that route's permalink as a link and no longer
\* the link to the .md file: also for repeated links and for targets that
\* occur elsewhere in the output.
C12_TrackedLinksRewritten ==
    Rewritten =>
        LET githubPath == routes[call.route].githubPath
            stored == cache[githubPath].content
        IN  \A k \in 1..Len(RenderedTargets), q \in RouteIds :
                UrlResolve(githubPath, RenderedTargets[k]) = routes[q].githubPath
                => /\ Occurrences(stored, Href(RenderedTargets[k])) = 0
                   /\ Occurrences(stored, Href(routes[q].path)) > 0

\* C13: for every .md link that matches no route, the stored output holds the
\* link exactly as rendered (as often as the rendered output did), a broken
\* link is logged for it, and the document is cached and indexed.
C13_UnresolvableLinksUntouched ==
    Rewritten =>
        LET githubPath == routes[call.route].githubPath
            stored == cache[githubPath].content
        IN  \A k \in 1..Len(RenderedTargets) :
                MatchingRoutes(RenderedTargets[k]) = {}
                => /\ Occurrences(stored, Href(RenderedTargets[k]))
                        = Occurrences(marked(call.md), Href(RenderedTargets[k]))
                   /\ [kind |-> "brokenLink", from |-> githubPath,
                       to |-> UrlResolve(githubPath, RenderedTargets[k])] \in log
                   /\ cache[githubPath] # None
                   /\ \E i \in 1..Len(documents) : documents[i].id = githubPath
                   /\ githubPath \in index.refs

\* C17: a link that several routes match is rewritten to the permalink of the
\* first of them in the order of the route table.
C17_FirstMatchWins ==
    Rewritten =>
        LET githubPath == routes[call.route].githubPath
            stored == cache[githubPath].content
        IN  \A k \in 1..Len(RenderedTargets) :
                LET matching == MatchingRoutes(RenderedTargets[k])
                    first == CHOOSE q \in matching : \A p \in matching : q <= p
                IN  Cardinality(matching) > 1
                    => Occurrences(stored, Href(routes[first].path)) > 0

\* C11: content-missing is not an error: in every step in which a route's
\* request is answered without error and without `content`, the task's
\* callback is called without error (the step does not make the cycle's final
\* callback an error), the cache entry of the route's githubPath becomes the
\* stub whose content is the rendering of 'Doc Not Found: ' + githubPath, and
\* a read of that key is answered with the stub.
C11_MissingContentGivesStub ==
    [][\A c \in CycleIds, r \in ContentRoutes :
          (cyc[c].fetch[r] = "inflight" /\ cyc'[c].fetch[r] = "missing")
          => LET githubPath == routes[r].githubPath
                 stub == [key |-> githubPath, content |-> NotFoundStub(githubPath)]
             IN  /\ cache'[githubPath] = stub
                 /\ cyc'[c].cbCalled = "err" => cyc[c].cbCalled = "err"
                 /\ ReadResult(cache', githubPath).fate = "answered"
                 /\ ReadResult(cache', githubPath).doc = stub]_vars

\* a route's request was answered without content, no fetch of the cycle
\* failed, and a read was then answered with the stub
C11_Witness ==
    \E c \in CycleIds, r \in ContentRoutes, i \in ReadIds :
        /\ cyc[c].fetch[r] = "missing"
        /\ cyc[c].cbCalled # "err"
        /\ reads[i].fate = "answered"
        /\ reads[i].path = routes[r].githubPath
        /\ reads[i].doc = [key |-> routes[r].githubPath,
                           content |-> NotFoundStub(routes[r].githubPath)]

\* C16: independent fetches: in every step in which the request of one route
\* of a cycle fails, the requests of the cycle's other routes stay as they
\* are and the process goes on; a request outstanding in a running process
\* can be answered whatever became of the others; and in every step in which
\* a route's request gets a valid response the cache entry of its githubPath
\* becomes the Document made from that response.
C16_IndependentFetches ==
    /\ [](\A c \in CycleIds, q \in ContentRoutes :
            (alive /\ cyc[c].fetch[q] = "inflight") => ENABLED fetchCallback(c, q))
    /\ [][\A c \in CycleIds, r \in ContentRoutes :
            /\ (cyc[c].fetch[r] = "inflight" /\ cyc'[c].fetch[r] = "err")
               => /\ \A q \in ContentRoutes \ {r} : cyc'[c].fetch[q] = cyc[c].fetch[q]
                  /\ alive'
            /\ (cyc[c].fetch[r] = "inflight" /\ cyc'[c].fetch[r] \in {"content", "missing"})
               => LET githubPath == routes[r].githubPath
                      res == Response(FALSE, cyc'[c].rev[r], githubPath)
                  IN  cache'[githubPath] =
                          [key |-> githubPath,
                           content |-> IF cyc'[c].fetch[r] = "content"
                                       THEN Output(res, githubPath)
                                       ELSE NotFoundStub(githubPath)]]_vars

\* in the first cycle the request of one route failed, the other route's was
\* answered with content, and the cache holds the other route's Document
C16_Witness ==
    \E r, q \in ContentRoutes :
        /\ ~cyc[2].started
        /\ cyc[1].fetch[r] = "err"
        /\ cyc[1].fetch[q] = "content"
        /\ cyc[1].cbCalled = "err"
        /\ cache[routes[r].githubPath] = None
        /\ cache[routes[q].githubPath] =
              [key |-> routes[q].githubPath,
               content |-> Output(Response(FALSE, cyc[1].rev[q], routes[q].githubPath),
                                  routes[q].githubPath)]

\* the routes whose upstream path is set
WithPath == {r \in RouteIds : routes[r].githubPath # Undefined}

\* a request sent by a read that missed is answered in this step
OnDemandStep ==
    \E i \in ReadIds : reads[i].fate = "inflight" /\ reads'[i].fate # "inflight"

\* C19: the step of a cycle that reaches the fetch stage sends exactly one
\* contents request for every route with an upstream path and none for the
\* others, and no later step of the cycle sends another; a route without a
\* path gets no cache entry from a cycle and never a corpus or index entry.
C19_OneFetchPerContentRoute ==
    [][/\ \A c \in CycleIds :
            /\ DOMAIN cyc'[c].fetch = WithPath
            /\ (~cyc[c].fetchApiRan /\ cyc'[c].fetchApiRan)
               => /\ \A r \in WithPath :
                        cyc[c].fetch[r] = "idle" /\ cyc'[c].fetch[r] = "inflight"
                  /\ fetchCalls' = fetchCalls + Cardinality(WithPath)
            /\ \A r \in DOMAIN cyc'[c].fetch :
                  (cyc[c].fetch[r] # "inflight" /\ cyc'[c].fetch[r] = "inflight")
                  => (~cyc[c].fetchApiRan /\ cyc'[c].fetchApiRan)
       /\ \A r \in RouteIds \ WithPath :
            /\ cache'[routes[r].githubPath] # cache[routes[r].githubPath] => OnDemandStep
            /\ \A i \in 1..Len(documents') :
                  /\ documents'[i].id # routes[r].githubPath
                  /\ documents'[i].permalink # routes[r].path
            /\ routes[r].githubPath \notin index'.refs]_vars

\* both cycles have reached the fetch stage and no read has sent a request:
\* the requests are the two registry and the two branches requests of each
\* cycle and one contents request per cycle and route with a path
C19_Witness ==
    /\ \A c \in CycleIds : cyc[c].fetchApiRan /\ AllFetchesSettled(c)
    /\ \A i \in ReadIds : reads[i].fate = "unused"
    /\ fetchCalls = MaxCycles * (2 * Cardinality(Pkgs) + Cardinality(WithPath))
    /\ cache[Undefined] = None

\* the ref the cycle resolved for the repository of a route, undefined
\* when the repository is not one of the two resolved
CycleRef(c, r) ==
    IF \E pkg \in Pkgs : RepoOf(pkg) = routes[r].githubRepo
    THEN cyc[c].results[CHOOSE pkg \in Pkgs : RepoOf(pkg) = routes[r].githubRepo]
    ELSE Undefined

====
